---- MODULE Spec2Model ----
(***************************************************************************)
(* Like / Match / Chat / Message / Rating core of local_swap_space_app.    *)
(* The relational store is modelled as sets of rows; every view and the    *)
(* post_save signal handler of Like are translated from views.py and       *)
(* signals.py.  Spec serves the requests one at a time (SpecLikes,         *)
(* SpecChats, SpecMsgs, SpecList, SpecStore, SpecOwner, SpecRate and       *)
(* SpecRatings serve a part of them, SpecItems and SpecAll add             *)
(* DeleteItemView); SpecConc runs like_item requests as overlapping READ   *)
(* COMMITTED transactions, SpecEnsure adds overlapping match listings,     *)
(* SpecRace overlaps like_item with chat deletion, and SpecCrash lets the  *)
(* worker die inside a request.                                            *)
(***************************************************************************)
EXTENDS Integers, FiniteSets, Sequences, TLC

\* ---- bounds ----
NumUsers == 3
NumItems == 4
MaxLikes == 3
MaxMessages == 2

Users == 1..NumUsers
Items == 1..NumItems

\* Item.owner: item i belongs to user ((i-1) mod NumUsers)+1, so user 1 owns
\* two items when NumItems > NumUsers.
Owner(i) == ((i - 1) % NumUsers) + 1

\* request.POST.get('message_text'): absent, empty, blank or real text.
None == "None"
Texts == {None, "", " ", "hi"}

\* Python truthiness of the posted text (views.py: `if message_text:`).
Truthy(t) == t # None /\ t # ""

VARIABLES
    items,       \* primary keys of the existing Item rows
    images,      \* ItemImage rows [id, item]
    likes,       \* Like rows      [id, item, liker], id = <<item, liker, n>>
    matches,     \* Match rows     [like_one, like_two]   (Like ids)
    chats,       \* Chat rows      [id, participant_one, participant_two], id = the pair
    messages,    \* Message rows   [id, chat, sender, text, sent_at]
    nextMsgId,   \* auto-increment primary key of Message
    ratings,     \* Rating rows    [rated_user, rating_user, rating]
    last,        \* the last request served and the outcome reported to its caller
    tx           \* per worker: the like_item request it is serving, if any

db == <<items, images, likes, matches, chats, messages, nextMsgId, ratings>>
vars == <<items, images, likes, matches, chats, messages, nextMsgId, ratings, last, tx>>

Ids(rows) == {r.id : r \in rows}

\* Primary keys.  The code only ever compares the keys of Like and Chat rows for
\* equality, so a key is named after the row instead of drawn from a sequence:
\* a Like by its item, its liker and the number of rows already stored for that
\* pair (Like has no uniqueness constraint, so that number can exceed 0), a Chat
\* by its participants (unique_together makes the pair a key).
NewLikeId(ls, i, u) == <<i, u, Cardinality({l \in ls : l.item = i /\ l.liker = u})>>
ChatId(p) == p

\* What a request reports: its status and, for the views that render rows, the
\* context it hands to the template.
Shown(op, result, data) == [op |-> op, result |-> result, data |-> data]

Outcome(op, result) == Shown(op, result, <<>>)

\* Two request workers are enough for two overlapping requests.
Procs == {1, 2}

NoLike == [id |-> <<0, 0, 0>>, item |-> 0, liker |-> 0]

NoChat == <<0, 0>>

\* A worker between requests.  While it serves one: the request (user, item or
\* chat), the rows its open transaction has written (instance, wmatches, wchats)
\* and deleted (dmsgs, dlikes, dmatches, dchat), and the rows its loop still has
\* to visit (todo, mtodo, kleft; keys and key for the listing; gone for the
\* likes of the match the deletion loop is at).
IdleTx == [pc |-> "idle", user |-> 0, item |-> 0, instance |-> NoLike,
           todo |-> {}, wmatches |-> {}, wchats |-> {}, result |-> "none",
           chat |-> NoChat, mtodo |-> {}, dmsgs |-> FALSE, dlikes |-> {},
           dmatches |-> {}, dchat |-> FALSE, keys |-> {}, kleft |-> {}, key |-> NoChat,
           gone |-> {}]

Init ==
    /\ tx = [p \in Procs |-> IdleTx]
    /\ items = Items
    /\ images = {[id |-> i, item |-> i] : i \in Items}
    /\ likes = {}
    /\ matches = {}
    /\ chats = {}
    /\ messages = {}
    /\ nextMsgId = 1
    /\ ratings = {}
    /\ last = Outcome("none", "none")

\* ---------------------------------------------------------------------------
\* signals.py: create_match_and_check_chat
\* ---------------------------------------------------------------------------

\* a handler that looks for potential likes only when the liker has the lower id
PotentialLikesLowerIdOnly(ls, instance) ==
    IF instance.liker > Owner(instance.item) THEN {}
    ELSE {l \in ls : Owner(l.item) = instance.liker /\ l.liker = Owner(instance.item)}

\* Like.objects.filter(item__owner=instance.liker, liker=instance.item.owner)
PotentialLikes(ls, instance) ==
    {l \in ls : Owner(l.item) = instance.liker /\ l.liker = Owner(instance.item)}

\* a check that looks for the match in one direction only
MatchExistsOneWay(ms, a, b) ==
    \E m \in ms : m.like_one = a /\ m.like_two = b

\* Match.objects.filter(Q(like_one=a, like_two=b) | Q(like_one=b, like_two=a)).exists()
MatchExists(ms, a, b) ==
    \E m \in ms : \/ (m.like_one = a /\ m.like_two = b)
                  \/ (m.like_one = b /\ m.like_two = a)

\* a handler that pairs the new like with one potential like only
NewMatchesFirstOnly(ls, ms, instance) ==
    LET cand == {p \in PotentialLikes(ls, instance) : ~MatchExists(ms, instance.id, p.id)}
    IN  IF cand = {} THEN {}
        ELSE {[like_one |-> instance.id, like_two |-> (CHOOSE p \in cand : TRUE).id]}

\* The Match rows the loop creates for `instance`: one per potential like that
\* is not yet matched with it, always with the new like as like_one.
NewMatches(ls, ms, instance) ==
    {[like_one |-> instance.id, like_two |-> l.id] :
        l \in {p \in PotentialLikes(ls, instance) : ~MatchExists(ms, instance.id, p.id)}}

\* sorted([instance.liker, like.liker], key=lambda user: user.id)
SortedPair(a, b) == IF a <= b THEN <<a, b>> ELSE <<b, a>>

\* Chat.objects.get_or_create(participant_one=p[1], participant_two=p[2])
ChatFor(cs, p) ==
    {c \in cs : c.participant_one = p[1] /\ c.participant_two = p[2]}

ChatGetOrCreate(cs, p) ==
    IF ChatFor(cs, p) # {} THEN cs
    ELSE cs \cup {[id |-> ChatId(p), participant_one |-> p[1], participant_two |-> p[2]]}

\* a handler that leaves the chat to the listing
EngineWithoutChat(ls, ms, cs, instance) ==
    [matches |-> ms \cup NewMatches(ls, ms, instance), chats |-> cs]

\* The whole handler for created=True, on the rows it can see.  Every potential
\* like has liker = instance.item.owner, so every iteration ensures the same chat.
Engine(ls, ms, cs, instance) ==
    LET nm == NewMatches(ls, ms, instance)
    IN  [matches |-> ms \cup nm,
         chats   |-> IF nm = {} THEN cs
                     ELSE ChatGetOrCreate(cs,
                              SortedPair(instance.liker, Owner(instance.item)))]

\* ---------------------------------------------------------------------------
\* views.py: like_item
\* ---------------------------------------------------------------------------
\* a handler that inserts without looking the row up first
ExistingLikesNeverLooked(ls, i, u) == {}

\* the lookup of Like.objects.get_or_create(item=item, liker=user)
ExistingLikes(ls, i, u) == {l \in ls : l.item = i /\ l.liker = u}

LikeItem(u, i) ==
    /\ i \in items    \* get_object_or_404(Item, pk=item_id)
    /\ LET existing == ExistingLikes(likes, i, u) IN
       IF existing # {}
       THEN \* get_or_create found the row (get() raises on more than one)
            /\ last' = Outcome("like_item",
                           IF Cardinality(existing) = 1 THEN "already_liked" ELSE "error")
            /\ UNCHANGED <<db, tx>>
       ELSE /\ Cardinality(likes) < MaxLikes
            /\ LET instance == [id |-> NewLikeId(likes, i, u), item |-> i, liker |-> u]
                   ls == likes \cup {instance}
                   e  == Engine(ls, matches, chats, instance)
               IN  /\ likes' = ls
                   /\ matches' = e.matches
                   /\ chats' = e.chats
            /\ last' = Outcome("like_item", "liked")
            /\ UNCHANGED <<items, images, ratings, messages, nextMsgId, tx>>

\* ---------------------------------------------------------------------------
\* views.py: send_message
\* ---------------------------------------------------------------------------
\* sent_at (auto_now) is the time of the save; requests are served one after
\* another, so a later Message has a later time, counted here in messages.
SendMessage(u, cid, text) ==
    /\ cid \in Ids(chats)    \* get_object_or_404(Chat, id=chat_id)
    /\ IF Truthy(text)
       THEN /\ nextMsgId <= MaxMessages
            /\ messages' = messages \cup
                   {[id |-> nextMsgId, chat |-> cid, sender |-> u, text |-> text,
                     sent_at |-> nextMsgId]}
            /\ nextMsgId' = nextMsgId + 1
            /\ last' = Outcome("send_message", "sent")
            /\ UNCHANGED <<items, images, ratings, likes, matches, chats, tx>>
       ELSE /\ last' = Outcome("send_message", "no_message")
            /\ UNCHANGED <<db, tx>>

\* ---------------------------------------------------------------------------
\* views.py: MatchUserListView.get_queryset
\* ---------------------------------------------------------------------------
LikeById(ls, id) == CHOOSE l \in ls : l.id = id

\* Match.objects.filter(Q(like_one__liker=user) | Q(like_two__liker=user)).distinct()
MatchesOf(ls, ms, u) ==
    {m \in ms : \/ \E l \in ls : l.id = m.like_one /\ l.liker = u
                \/ \E l \in ls : l.id = m.like_two /\ l.liker = u}

\* other_user = match.like_two.liker if match.like_one.liker == user else match.like_one.liker
OtherUser(ls, m, u) ==
    IF LikeById(ls, m.like_one).liker = u THEN LikeById(ls, m.like_two).liker
    ELSE LikeById(ls, m.like_one).liker

\* a key that keeps the order (user, other_user)
UserPairKeyAsGiven(u, o) == <<u, o>>

\* user_pair_key = (min(user.id, other_user.id), max(user.id, other_user.id))
UserPairKey(u, o) == <<IF u <= o THEN u ELSE o, IF u <= o THEN o ELSE u>>

\* All enumerations of a finite set (a queryset without order_by has no
\* defined row order).
Orderings(S) ==
    {f \in [1..Cardinality(S) -> S] : \A a, b \in 1..Cardinality(S) : f[a] = f[b] => a = b}

\* The chats after the loop: Chat.objects.get_or_create once per group.
RECURSIVE EnsureChats(_, _, _)
EnsureChats(order, k, cs) ==
    IF k > Len(order) THEN cs
    ELSE EnsureChats(order, k + 1, ChatGetOrCreate(cs, order[k]))

\* a view that takes the first like of every match for the user's
ItemFromUserAlwaysLikeOne(ls, m, u) == LikeById(ls, m.like_one).item

\* item_from_user / item_from_them of one match
ItemFromUser(ls, m, u) ==
    IF LikeById(ls, m.like_one).liker = u THEN LikeById(ls, m.like_one).item
    ELSE LikeById(ls, m.like_two).item

ItemFromThem(ls, m, u) ==
    IF LikeById(ls, m.like_one).liker = u THEN LikeById(ls, m.like_two).item
    ELSE LikeById(ls, m.like_one).item

\* grouped_matches[o] once the loop is over, with `before` the chats when the
\* request arrived and `after` the chats when the loop is over.  `created` is
\* the flag get_or_create returns next to the chat (the view binds it to `_`).
GroupedMatch(ls, ms, before, after, u, o) ==
    LET mine == {m \in MatchesOf(ls, ms, u) : OtherUser(ls, m, u) = o}
    IN  [other_user      |-> o,
         items_from_user |-> {ItemFromUser(ls, m, u) : m \in mine},
         items_from_them |-> {ItemFromThem(ls, m, u) : m \in mine},
         chat            |-> (CHOOSE c \in ChatFor(after, UserPairKey(u, o)) : TRUE).id,
         created         |-> (ChatFor(before, UserPairKey(u, o)) = {})]

\* the other user of a pair key of u
KeyOther(u, key) == IF key[1] = u THEN key[2] ELSE key[1]

MatchList(u) ==
    LET keys == {UserPairKey(u, OtherUser(likes, m, u)) : m \in MatchesOf(likes, matches, u)}
    IN  \E order \in Orderings(keys) :
            /\ chats' = EnsureChats(order, 1, chats)
            /\ last' = Shown("match_list", "ok",
                              [k \in 1..Len(order) |->
                                  GroupedMatch(likes, matches, chats, chats', u, KeyOther(u, order[k]))])
            /\ UNCHANGED <<items, images, ratings, likes, matches, messages, nextMsgId, tx>>

\* ---------------------------------------------------------------------------
\* views.py: ChatView
\* ---------------------------------------------------------------------------

\* a view that shows the messages of every chat
ChatMessagesOfAnyChat(msgs, cid) == msgs

\* chat.messages.all()
ChatMessages(msgs, cid) == {m \in msgs : m.chat = cid}

\* a list ordered newest first
OrderBySentAtDescending(S) ==
    CHOOSE f \in Orderings(S) :
        \A a, b \in 1..Cardinality(S) : a < b => f[a].sent_at >= f[b].sent_at

\* .order_by('sent_at')
OrderBySentAt(S) ==
    CHOOSE f \in Orderings(S) :
        \A a, b \in 1..Cardinality(S) : a < b => f[a].sent_at <= f[b].sent_at

ChatView(u, cid) ==
    /\ cid \in Ids(chats)    \* super().get_object(): Http404 otherwise
    /\ LET chat == CHOOSE c \in chats : c.id = cid IN
       IF chat.participant_one # u /\ chat.participant_two # u
       THEN last' = Outcome("chat_view", "denied")    \* PermissionDenied: 403
       ELSE last' = Shown("chat_view", "ok", OrderBySentAt(ChatMessages(messages, cid)))
    /\ UNCHANGED <<db, tx>>

\* ---------------------------------------------------------------------------
\* admin.py: ChatAdmin.  Deleting a Chat row in the admin cascades to its
\* Messages and to nothing else.
\* ---------------------------------------------------------------------------
AdminDeleteChat(cid) ==
    /\ \A p \in Procs : tx[p].pc = "idle"
    /\ cid \in Ids(chats)
    /\ chats' = {c \in chats : c.id # cid}
    /\ messages' = {m \in messages : m.chat # cid}
    /\ last' = Outcome("admin_delete_chat", "deleted")
    /\ UNCHANGED <<items, images, ratings, likes, matches, nextMsgId, tx>>

\* ---------------------------------------------------------------------------
\* views.py: delete_chat_and_related_data
\* ---------------------------------------------------------------------------

\* a view without the participant check
MayDeleteChatUnchecked(u, chat) == TRUE

\* request.user not in [chat.participant_one, chat.participant_two]
MayDeleteChat(u, chat) == u \in {chat.participant_one, chat.participant_two}

\* a filter that takes every match
MatchesToDeleteEvery(ls, ms, chat) == ms

\* a filter with the first Q only
MatchesToDeleteOneWay(ls, ms, chat) ==
    LET l1 == Ids({l \in ls : l.liker = chat.participant_one})
        l2 == Ids({l \in ls : l.liker = chat.participant_two})
    IN  {m \in ms : m.like_one \in l1 /\ m.like_two \in l2}

\* Match.objects.filter(Q(like_one__in=l1, like_two__in=l2) | Q(like_one__in=l2, like_two__in=l1))
MatchesToDelete(ls, ms, chat) ==
    LET l1 == Ids({l \in ls : l.liker = chat.participant_one})
        l2 == Ids({l \in ls : l.liker = chat.participant_two})
    IN  {m \in ms : \/ (m.like_one \in l1 /\ m.like_two \in l2)
                    \/ (m.like_one \in l2 /\ m.like_two \in l1)}

\* a cascade that takes every Match with it
CascadeLikesEveryMatch(ms, gone) == {}

\* on_delete=CASCADE from Like to Match
CascadeLikes(ms, gone) == {m \in ms : m.like_one \notin gone /\ m.like_two \notin gone}

\* The for loop over the fetched matches.  match.like_one / match.like_two load
\* the Like row; Like.DoesNotExist is raised when an earlier iteration already
\* deleted it (ok = FALSE).
RECURSIVE DeleteLoop(_, _, _, _)
DeleteLoop(order, k, ls, ms) ==
    IF k > Len(order) THEN [ok |-> TRUE, likes |-> ls, matches |-> ms]
    ELSE LET m == order[k]
             gone == {m.like_one, m.like_two}
         IN  IF ~(gone \subseteq Ids(ls))
             THEN [ok |-> FALSE, likes |-> ls, matches |-> ms]
             ELSE DeleteLoop(order, k + 1,
                             {l \in ls : l.id \notin gone},
                             CascadeLikes(ms, gone) \ {m})

DeleteChat(u, cid) ==
    /\ cid \in Ids(chats)    \* get_object_or_404(Chat, pk=chat_id)
    /\ LET chat == CHOOSE c \in chats : c.id = cid IN
       IF ~MayDeleteChat(u, chat)
       THEN /\ last' = Outcome("delete_chat", "denied")
            /\ UNCHANGED <<db, tx>>
       ELSE \E order \in Orderings(MatchesToDelete(likes, matches, chat)) :
              LET r == DeleteLoop(order, 1, likes, matches) IN
              IF r.ok
              THEN /\ messages' = {m \in messages : m.chat # cid}
                   /\ likes' = r.likes
                   /\ matches' = r.matches
                   /\ chats' = chats \ {chat}
                   /\ last' = Outcome("delete_chat", "deleted")
                   /\ UNCHANGED <<items, images, ratings, nextMsgId, tx>>
              ELSE \* the exception leaves transaction.atomic(): rollback
                   /\ last' = Outcome("delete_chat", "error")
                   /\ UNCHANGED <<db, tx>>

\* ---------------------------------------------------------------------------
\* views.py: DeleteItemView.post
\* ---------------------------------------------------------------------------

\* a view that looks at like_one only
ItemInMatchLikeOneOnly(ls, ms, i) ==
    \E m \in ms : \E l \in ls : l.item = i /\ l.id = m.like_one

\* a view that never finds the item in a match
ItemInMatchNeverFound(ls, ms, i) == FALSE

\* Match.objects.filter(like_one__item=item).exists() or ...(like_two__item=item).exists()
ItemInMatch(ls, ms, i) ==
    \E m \in ms : \E l \in ls : l.item = i /\ (l.id = m.like_one \/ l.id = m.like_two)

\* a view without the owner check
OwnsItemUnchecked(u, i) == TRUE

\* item.owner != request.user
OwnsItem(u, i) == Owner(i) = u

\* a store without the cascade from Item to Like
CascadeItemKeepsLikes(ls, i) == ls

\* on_delete=CASCADE from Item to Like
CascadeItem(ls, i) == {l \in ls : l.item # i}

DeleteItem(u, i) ==
    /\ i \in items    \* get_object_or_404(Item, pk=item_id)
    /\ IF ~OwnsItem(u, i)
       THEN /\ last' = Outcome("delete_item", "denied")
            /\ UNCHANGED <<db, tx>>
       ELSE IF ItemInMatch(likes, matches, i)
       THEN /\ last' = Outcome("delete_item", "warning")
            /\ UNCHANGED <<db, tx>>
       ELSE \* item.delete() cascades to its Likes and to their Matches
            /\ images' = {g \in images : g.item # i}
            /\ items' = items \ {i}
            /\ likes' = CascadeItem(likes, i)
            /\ matches' = CascadeLikes(matches, Ids({l \in likes : l.item = i}))
            /\ last' = Outcome("delete_item", "deleted")
            /\ UNCHANGED <<chats, messages, ratings, nextMsgId, tx>>

\* ---------------------------------------------------------------------------
\* views.py: OtherUserProfileView.post
\* ---------------------------------------------------------------------------

\* request.POST['rating']: absent (0), or a number; RatingForm accepts 1..5.
Posted == {0, 3, 5}

\* form.is_valid(): ChoiceField(choices=[(i, str(i)) for i in range(1, 6)])
ValidRating(v) == v \in 1..5

\* a view that lets everybody rate
CanRateUnchecked(ls, ms, user, other) == TRUE

\* context['can_rate']: Match.objects.filter(
\*     Q(like_one__liker=user, like_two__liker=other_user) |
\*     Q(like_one__liker=other_user, like_two__liker=user)).exists()
CanRate(ls, ms, user, other) ==
    \E m \in ms : \E a, b \in ls :
        /\ a.id = m.like_one
        /\ b.id = m.like_two
        /\ \/ (a.liker = user /\ b.liker = other)
           \/ (a.liker = other /\ b.liker = user)

\* context['existing_rating']: the value of
\* Rating.objects.filter(rated_user=other_user, rating_user=user).first(), 0 for None
ExistingRating(rs, rated, rater) ==
    LET found == {r \in rs : r.rated_user = rated /\ r.rating_user = rater}
    IN  IF found = {} THEN 0 ELSE (CHOOSE r \in found : TRUE).rating

\* a create that never looks for the row
UpdateOrCreateAlwaysCreates(rs, rated, rater, v) ==
    rs \cup {[rated_user |-> rated, rating_user |-> rater, rating |-> v]}

\* Rating.objects.update_or_create(rated_user=..., rating_user=..., defaults={'rating': v})
UpdateOrCreate(rs, rated, rater, v) ==
    {r \in rs : ~(r.rated_user = rated /\ r.rating_user = rater)}
        \cup {[rated_user |-> rated, rating_user |-> rater, rating |-> v]}

\* POST by `user` on the profile of `other` (every user has a profile page).
RateUser(user, other, v) ==
    IF ~CanRate(likes, matches, user, other)
    THEN \* return self.get(...): the page is rendered, nothing is written
         /\ last' = Outcome("rate_user", "not_allowed")
         /\ UNCHANGED <<db, tx>>
    ELSE IF ValidRating(v)
    THEN /\ ratings' = UpdateOrCreate(ratings, other, user, v)
         /\ last' = Shown("rate_user", "submitted",
                           <<other, user, v, ExistingRating(ratings, other, user)>>)
         /\ UNCHANGED <<items, images, likes, matches, chats, messages, nextMsgId, tx>>
    ELSE /\ last' = Outcome("rate_user", "invalid")
         /\ UNCHANGED <<db, tx>>

\* every chat_id a request can name
ChatIds == {ChatId(SortedPair(a, b)) : a, b \in Users}

\* The requests of the like / match / chat / message core, served one at a time.
Next ==
    \/ \E u \in Users, i \in Items : LikeItem(u, i)
    \/ \E u \in Users, c \in ChatIds, t \in Texts : SendMessage(u, c, t)
    \/ \E u \in Users : MatchList(u)
    \/ \E u \in Users, c \in ChatIds : DeleteChat(u, c)

Spec == Init /\ [][Next]_vars

\* The same requests together with DeleteItemView.
NextItems ==
    \/ \E u \in Users, i \in Items : LikeItem(u, i)
    \/ \E u \in Users, c \in ChatIds, t \in Texts : SendMessage(u, c, t)
    \/ \E u \in Users : MatchList(u)
    \/ \E u \in Users, c \in ChatIds : DeleteChat(u, c)
    \/ \E u \in Users, i \in Items : DeleteItem(u, i)

SpecItems == Init /\ [][NextItems]_vars

\* like_item requests only
NextLikes == \E u \in Users, i \in Items : LikeItem(u, i)

SpecLikes == Init /\ [][NextLikes]_vars

\* like_item, match listing and chat deletion
NextChats ==
    \/ \E u \in Users, i \in Items : LikeItem(u, i)
    \/ \E u \in Users : MatchList(u)
    \/ \E u \in Users, c \in ChatIds : DeleteChat(u, c)

SpecChats == Init /\ [][NextChats]_vars

\* like_item, the two chat views and chat deletion
NextMsgs ==
    \/ \E u \in Users, i \in Items : LikeItem(u, i)
    \/ \E u \in Users, c \in ChatIds, t \in Texts : SendMessage(u, c, t)
    \/ \E u \in Users, c \in ChatIds : ChatView(u, c)
    \/ \E u \in Users, c \in ChatIds : DeleteChat(u, c)

SpecMsgs == Init /\ [][NextMsgs]_vars

\* like_item, match listing and chat deletion, with Chat rows deleted in the admin
NextList ==
    \/ \E u \in Users, i \in Items : LikeItem(u, i)
    \/ \E u \in Users : MatchList(u)
    \/ \E u \in Users, c \in ChatIds : DeleteChat(u, c)
    \/ \E c \in ChatIds : AdminDeleteChat(c)

SpecList == Init /\ [][NextList]_vars

\* the requests that write Like, Match and Chat rows, without the messages
NextStore ==
    \/ \E u \in Users, i \in Items : LikeItem(u, i)
    \/ \E u \in Users : MatchList(u)
    \/ \E u \in Users, c \in ChatIds : DeleteChat(u, c)
    \/ \E u \in Users, i \in Items : DeleteItem(u, i)

SpecStore == Init /\ [][NextStore]_vars

\* every request that writes Like, Match, Chat or Message rows, one at a time;
\* the messages are sent by the first participant of the chat
NextAll ==
    \/ \E u \in Users, i \in Items : LikeItem(u, i)
    \/ \E c \in ChatIds : SendMessage(c[1], c, "hi")
    \/ \E u \in Users : MatchList(u)
    \/ \E u \in Users, c \in ChatIds : DeleteChat(u, c)
    \/ \E u \in Users, i \in Items : DeleteItem(u, i)

SpecAll == Init /\ [][NextAll]_vars

\* like_item and DeleteItemView
NextOwner ==
    \/ \E u \in Users, i \in Items : LikeItem(u, i)
    \/ \E u \in Users, i \in Items : DeleteItem(u, i)

SpecOwner == Init /\ [][NextOwner]_vars

\* the users who post ratings, and the profiles they post them to
MaxRated == 2
Raters == 1..MaxRated

\* like_item, chat deletion and the rating form of the profile page
NextRate ==
    \/ \E u \in Users, i \in Items : LikeItem(u, i)
    \/ \E u \in Users, c \in ChatIds : DeleteChat(u, c)
    \/ \E u, o \in Raters, v \in Posted : RateUser(u, o, v)

SpecRate == Init /\ [][NextRate]_vars

\* like_item and the rating form, posted by every user on every profile
NextRatings ==
    \/ \E u \in Users, i \in Items : LikeItem(u, i)
    \/ \E u, o \in Users, v \in Posted : RateUser(u, o, v)

SpecRatings == Init /\ [][NextRatings]_vars

\* ---------------------------------------------------------------------------
\* like_item as a database transaction.  The store is PostgreSQL (the User
\* model has a geography PointField), whose default isolation is READ
\* COMMITTED: every statement sees the committed rows and the rows its own
\* transaction wrote.  likes, matches and chats are the committed rows; the
\* rows a transaction has written and not committed are kept in tx.
\* ---------------------------------------------------------------------------
Written(p) == IF tx[p].instance = NoLike THEN {} ELSE {tx[p].instance}

VisibleLikes(p)   == likes \cup Written(p)
VisibleMatches(p) == matches \cup tx[p].wmatches
VisibleChats(p)   == chats \cup tx[p].wchats

\* every Like row stored, committed or not (the key sequence is not transactional)
AllLikes == likes \cup UNION {Written(p) : p \in Procs}

\* The request arrives (get_object_or_404), enters transaction.atomic() and runs
\* the first half of get_or_create: SELECT the Like of (item, liker).
TxGet(p, u, i) ==
    /\ tx[p].pc = "idle"
    /\ i \in items
    /\ LET existing == ExistingLikes(likes, i, u)
           t == [IdleTx EXCEPT !.user = u, !.item = i]
       IN  tx' = [tx EXCEPT ![p] =
                    IF existing = {} THEN [t EXCEPT !.pc = "create"]
                    ELSE [t EXCEPT !.pc = "commit",
                                   !.result = IF Cardinality(existing) = 1
                                              THEN "already_liked" ELSE "error"]]
    /\ UNCHANGED <<db, last>>

\* get_or_create, second half: INSERT.  Like declares no uniqueness constraint,
\* so the INSERT cannot fail on a row another transaction wrote.
TxCreate(p) ==
    /\ tx[p].pc = "create"
    /\ Cardinality(AllLikes) < MaxLikes
    /\ tx' = [tx EXCEPT ![p].pc = "signal",
                        ![p].instance = [id    |-> NewLikeId(AllLikes, tx[p].item, tx[p].user),
                                         item  |-> tx[p].item,
                                         liker |-> tx[p].user]]
    /\ UNCHANGED <<db, last>>

\* post_save with created=True: the potential_likes queryset is fetched when the
\* for loop starts.
TxSignal(p) ==
    /\ tx[p].pc = "signal"
    /\ tx' = [tx EXCEPT ![p].pc = "loop",
                        ![p].todo = PotentialLikes(VisibleLikes(p), tx[p].instance)]
    /\ UNCHANGED <<db, last>>

\* One iteration of the loop up to Match.objects.create; the loop's end leaves
\* the atomic block.
TxLoop(p) ==
    /\ tx[p].pc = "loop"
    /\ IF tx[p].todo = {}
       THEN tx' = [tx EXCEPT ![p].pc = "commit", ![p].result = "liked"]
       ELSE \E l \in tx[p].todo :
              tx' = [tx EXCEPT ![p] =
                       IF MatchExists(VisibleMatches(p), tx[p].instance.id, l.id)
                       THEN [@ EXCEPT !.todo = @ \ {l}]
                       ELSE [@ EXCEPT !.todo = @ \ {l},
                                      !.wmatches = @ \cup {[like_one |-> tx[p].instance.id,
                                                            like_two |-> l.id]},
                                      !.pc = "chat_get"]]
    /\ UNCHANGED <<db, last>>

\* The pair of the chat: like.liker is instance.item.owner for every potential like.
TxPair(p) == SortedPair(tx[p].instance.liker, Owner(tx[p].instance.item))

\* Chat.objects.get_or_create, first half: SELECT.
TxChatGet(p) ==
    /\ tx[p].pc = "chat_get"
    /\ tx' = [tx EXCEPT ![p].pc = IF ChatFor(VisibleChats(p), TxPair(p)) # {}
                                  THEN "loop" ELSE "chat_create"]
    /\ UNCHANGED <<db, last>>

\* Chat.objects.get_or_create, second half: INSERT under unique_together.  The
\* INSERT waits while another transaction holds an uncommitted row with the same
\* key; if the key is committed by then it raises IntegrityError, which
\* get_or_create catches and answers with the committed row.
\* a get_or_create that lets the IntegrityError through
AfterIntegrityErrorRaise(cs, pair) == "raise"

\* get_or_create's handler of IntegrityError: get() once more, and re-raise
\* only if the row is still not there.
AfterIntegrityError(cs, pair) == IF ChatFor(cs, pair) # {} THEN "got" ELSE "raise"

TxChatCreate(p) ==
    /\ tx[p].pc = "chat_create"
    /\ \A q \in Procs \ {p} : ChatFor(tx[q].wchats, TxPair(p)) = {}
    /\ IF ChatFor(chats, TxPair(p)) = {}
       THEN /\ tx' = [tx EXCEPT ![p].pc = "loop",
                                ![p].wchats = ChatGetOrCreate(@, TxPair(p))]
            /\ UNCHANGED <<db, last>>
       ELSE IF AfterIntegrityError(chats, TxPair(p)) = "got"
       THEN /\ tx' = [tx EXCEPT ![p].pc = "loop"]
            /\ UNCHANGED <<db, last>>
       ELSE \* the error leaves transaction.atomic(): rollback, HTTP 500
            /\ tx' = [tx EXCEPT ![p] = IdleTx]
            /\ last' = Outcome("like_item", "integrity_error")
            /\ UNCHANGED db

\* a store that does not enforce the foreign keys
ForeignKeysUnchecked(ls, ms) == TRUE

\* Match.like_one and Match.like_two are ForeignKeys to Like.  The store checks
\* them when the transaction commits (Django declares them DEFERRABLE INITIALLY
\* DEFERRED): every Match row must reference two existing Like rows.
ForeignKeysHold(ls, ms) ==
    \A m \in ms : {m.like_one, m.like_two} \subseteq Ids(ls)

\* Leaving transaction.atomic(): COMMIT, then the redirect with the message.
\* The check of a new Match row locks the two Like rows it references, so it
\* waits for a transaction that has deleted one of them and not yet committed;
\* a violated foreign key raises IntegrityError and rolls the transaction back.
TxCommit(p) ==
    /\ tx[p].pc = "commit"
    /\ \A q \in Procs \ {p} : \A m \in tx[p].wmatches :
           {m.like_one, m.like_two} \cap tx[q].dlikes = {}
    /\ tx' = [tx EXCEPT ![p] = IdleTx]
    /\ IF ForeignKeysHold(likes \cup Written(p), tx[p].wmatches)
       THEN /\ likes' = likes \cup Written(p)
            /\ matches' = matches \cup tx[p].wmatches
            /\ chats' = chats \cup tx[p].wchats
            /\ last' = Outcome("like_item", tx[p].result)
            /\ UNCHANGED <<items, images, ratings, messages, nextMsgId>>
       ELSE /\ last' = Outcome("like_item", "integrity_error")
            /\ UNCHANGED db

\* ---------------------------------------------------------------------------
\* MatchUserListView.get_queryset statement by statement.  The view opens no
\* transaction, so every INSERT is committed at once (autocommit).
\* ---------------------------------------------------------------------------

\* The request arrives and the for loop fetches the matches of the user; keys
\* are the pairs of the groups, kleft the groups whose chat is still None.
TxListFetch(p, u) ==
    /\ tx[p].pc = "idle"
    /\ LET keys == {UserPairKey(u, OtherUser(likes, m, u)) : m \in MatchesOf(likes, matches, u)}
       IN  tx' = [tx EXCEPT ![p] = [IdleTx EXCEPT !.pc = "list_get",
                                                  !.keys = keys, !.kleft = keys]]
    /\ UNCHANGED <<db, last>>

\* The first match of the next group.  Chat.objects.get_or_create, first half:
\* SELECT.
TxListGet(p) ==
    /\ tx[p].pc = "list_get"
    /\ \E k \in tx[p].kleft :
          tx' = [tx EXCEPT ![p] = IF ChatFor(chats, k) # {}
                                  THEN [@ EXCEPT !.kleft = @ \ {k}]
                                  ELSE [@ EXCEPT !.pc = "list_create", !.key = k]]
    /\ UNCHANGED <<db, last>>

\* Chat.objects.get_or_create, second half: INSERT under unique_together, waiting
\* for a transaction that holds an uncommitted row with the same key.
TxListCreate(p) ==
    /\ tx[p].pc = "list_create"
    /\ \A q \in Procs \ {p} : ChatFor(tx[q].wchats, tx[p].key) = {}
    /\ LET back == [tx EXCEPT ![p].pc = "list_get", ![p].key = NoChat,
                              ![p].kleft = @ \ {tx[p].key}]
       IN  IF ChatFor(chats, tx[p].key) = {}
           THEN /\ chats' = ChatGetOrCreate(chats, tx[p].key)
                /\ tx' = back
                /\ UNCHANGED <<items, images, ratings, likes, matches, messages, nextMsgId, last>>
           ELSE IF AfterIntegrityError(chats, tx[p].key) = "got"
           THEN /\ tx' = back
                /\ UNCHANGED <<db, last>>
           ELSE \* the error leaves the view: HTTP 500
                /\ tx' = [tx EXCEPT ![p] = IdleTx]
                /\ last' = Outcome("match_list", "integrity_error")
                /\ UNCHANGED db

\* The loop is over; the list is returned and rendered.
TxListDone(p) ==
    /\ tx[p].pc = "list_get"
    /\ tx[p].kleft = {}
    /\ tx' = [tx EXCEPT ![p] = IdleTx]
    /\ last' = Outcome("match_list", "ok")
    /\ UNCHANGED db

\* ---------------------------------------------------------------------------
\* delete_chat_and_related_data statement by statement, inside
\* transaction.atomic().
\* ---------------------------------------------------------------------------

\* The request arrives: get_object_or_404, the participant check, then the
\* atomic block is entered.
TxDelBegin(p, u, cid) ==
    /\ tx[p].pc = "idle"
    /\ cid \in Ids(chats)
    /\ IF ~MayDeleteChat(u, CHOOSE c \in chats : c.id = cid)
       THEN /\ last' = Outcome("delete_chat", "denied")
            /\ UNCHANGED <<db, tx>>
       ELSE /\ tx' = [tx EXCEPT ![p] = [IdleTx EXCEPT !.pc = "del_messages",
                                                      !.user = u, !.chat = cid]]
            /\ UNCHANGED <<db, last>>

\* chat.messages.all().delete()
TxDelMessages(p) ==
    /\ tx[p].pc = "del_messages"
    /\ tx' = [tx EXCEPT ![p].pc = "del_fetch", ![p].dmsgs = TRUE]
    /\ UNCHANGED <<db, last>>

\* for match in matches_to_delete: the queryset is fetched when the loop starts
TxDelFetch(p) ==
    /\ tx[p].pc = "del_fetch"
    /\ tx' = [tx EXCEPT ![p].pc = "del_loop",
                        ![p].mtodo = MatchesToDelete(likes, matches,
                                         CHOOSE c \in chats : c.id = tx[p].chat)]
    /\ UNCHANGED <<db, last>>

\* One iteration, first half: load both likes of the match (Like.DoesNotExist
\* if an earlier iteration deleted one: the exception rolls the transaction
\* back); Like.objects.filter(id__in=...).delete() begins with the DELETE of
\* the matches that cascade from the two likes.
TxDelLoop(p) ==
    /\ tx[p].pc = "del_loop"
    /\ IF tx[p].mtodo = {}
       THEN /\ tx' = [tx EXCEPT ![p].pc = "del_chat"]
            /\ UNCHANGED <<db, last>>
       ELSE \E m \in tx[p].mtodo :
              LET gone == {m.like_one, m.like_two} IN
              IF ~(gone \subseteq (Ids(likes) \ tx[p].dlikes))
              THEN /\ tx' = [tx EXCEPT ![p] = IdleTx]
                   /\ last' = Outcome("delete_chat", "error")
                   /\ UNCHANGED db
              ELSE /\ tx' = [tx EXCEPT
                              ![p].pc = "del_likes",
                              ![p].mtodo = @ \ {m},
                              ![p].gone = gone,
                              ![p].dmatches = @ \cup {m} \cup (matches \ CascadeLikes(matches, gone))]
                   /\ UNCHANGED <<db, last>>

\* One iteration, second half: the DELETE of the two likes, then match.delete().
TxDelLikes(p) ==
    /\ tx[p].pc = "del_likes"
    /\ tx' = [tx EXCEPT ![p].pc = "del_loop",
                        ![p].dlikes = @ \cup tx[p].gone,
                        ![p].gone = {}]
    /\ UNCHANGED <<db, last>>

\* chat.delete()
TxDelChat(p) ==
    /\ tx[p].pc = "del_chat"
    /\ tx' = [tx EXCEPT ![p].pc = "del_commit", ![p].dchat = TRUE]
    /\ UNCHANGED <<db, last>>

\* the rows of the store once the writes and deletes of worker p are applied
LikesAfter(p)    == {l \in likes \cup Written(p) : l.id \notin tx[p].dlikes}
MatchesAfter(p)  == (matches \cup tx[p].wmatches) \ tx[p].dmatches
ChatsAfter(p)    == {c \in chats \cup tx[p].wchats : ~(tx[p].dchat /\ c.id = tx[p].chat)}
MessagesAfter(p) == {m \in messages : ~(tx[p].dmsgs /\ m.chat = tx[p].chat)}

\* Leaving transaction.atomic(): COMMIT, then the redirect with the message.
\* A Match row committed meanwhile that references a Like this transaction
\* deleted violates the foreign key: IntegrityError, rollback.
TxDelCommit(p) ==
    /\ tx[p].pc = "del_commit"
    /\ tx' = [tx EXCEPT ![p] = IdleTx]
    /\ IF ForeignKeysHold(LikesAfter(p), MatchesAfter(p))
       THEN /\ likes' = LikesAfter(p)
            /\ matches' = MatchesAfter(p)
            /\ chats' = ChatsAfter(p)
            /\ messages' = MessagesAfter(p)
            /\ last' = Outcome("delete_chat", "deleted")
            /\ UNCHANGED <<items, images, ratings, nextMsgId>>
       ELSE /\ last' = Outcome("delete_chat", "integrity_error")
            /\ UNCHANGED db

\* a store without transactions: what was written before the failure stays
TxCrashKeepsWrites(p) ==
    /\ tx[p].pc # "idle"
    /\ likes' = LikesAfter(p)
    /\ matches' = MatchesAfter(p)
    /\ chats' = ChatsAfter(p)
    /\ messages' = MessagesAfter(p)
    /\ last' = Outcome("crash", tx[p].pc)
    /\ tx' = [tx EXCEPT ![p] = IdleTx]
    /\ UNCHANGED <<items, images, ratings, nextMsgId>>

\* The worker process dies inside a request; the result names the step it was
\* about to take.  The connection is lost with it and the store rolls the open
\* transaction back.
TxCrash(p) ==
    /\ tx[p].pc # "idle"
    /\ last' = Outcome("crash", tx[p].pc)
    /\ tx' = [tx EXCEPT ![p] = IdleTx]
    /\ UNCHANGED db

NextConc ==
    \E p \in Procs :
        \/ \E u \in Users, i \in Items : TxGet(p, u, i)
        \/ TxCreate(p)
        \/ TxSignal(p)
        \/ TxLoop(p)
        \/ TxChatGet(p)
        \/ TxChatCreate(p)
        \/ TxCommit(p)

SpecConc == Init /\ [][NextConc]_vars

\* like_item and match listing requests overlapping on two workers; between
\* them Chat rows may be deleted in the admin.
NextEnsure ==
    \/ \E p \in Procs :
          \/ \E u \in Users, i \in Items : TxGet(p, u, i)
          \/ TxCreate(p)
          \/ TxSignal(p)
          \/ TxLoop(p)
          \/ TxChatGet(p)
          \/ TxChatCreate(p)
          \/ TxCommit(p)
          \/ \E u \in Users : TxListFetch(p, u)
          \/ TxListGet(p)
          \/ TxListCreate(p)
          \/ TxListDone(p)
    \/ \E c \in ChatIds : AdminDeleteChat(c)

SpecEnsure == Init /\ [][NextEnsure]_vars

\* the one worker of the failure scenarios
Worker == 1

\* One worker serves like_item, send_message (by the first participant) and
\* delete_chat_and_related_data requests and may die at any statement.
NextCrash ==
    \/ \E u \in Users, i \in Items : TxGet(Worker, u, i)
    \/ TxCreate(Worker)
    \/ TxSignal(Worker)
    \/ TxLoop(Worker)
    \/ TxChatGet(Worker)
    \/ TxChatCreate(Worker)
    \/ TxCommit(Worker)
    \/ \E c \in ChatIds : tx[Worker].pc = "idle" /\ SendMessage(c[1], c, "hi")
    \/ \E u \in Users, c \in ChatIds : TxDelBegin(Worker, u, c)
    \/ TxDelMessages(Worker)
    \/ TxDelFetch(Worker)
    \/ TxDelLoop(Worker)
    \/ TxDelLikes(Worker)
    \/ TxDelChat(Worker)
    \/ TxDelCommit(Worker)
    \/ TxCrash(Worker)

SpecCrash == Init /\ [][NextCrash]_vars

\* the worker that serves the like_item requests and the worker that serves
\* the delete_chat_and_related_data requests of the overlapping pair
Liking == 1
Deleting == 2

\* like_item requests on one worker overlapping with
\* delete_chat_and_related_data requests on the other
NextRace ==
    \/ \E u \in Users, i \in Items : TxGet(Liking, u, i)
    \/ TxCreate(Liking)
    \/ TxSignal(Liking)
    \/ TxLoop(Liking)
    \/ TxChatGet(Liking)
    \/ TxChatCreate(Liking)
    \/ TxCommit(Liking)
    \/ \E u \in Users, c \in ChatIds : TxDelBegin(Deleting, u, c)
    \/ TxDelMessages(Deleting)
    \/ TxDelFetch(Deleting)
    \/ TxDelLoop(Deleting)
    \/ TxDelLikes(Deleting)
    \/ TxDelChat(Deleting)
    \/ TxDelCommit(Deleting)

SpecRace == Init /\ [][NextRace]_vars

\* ===========================================================================
\* Properties
\* ===========================================================================
LikesOf(u, i) == {l \in likes : l.item = i /\ l.liker = u}

\* a is a like on an item of b's liker and b a like on an item of a's liker
Reciprocal(a, b) == Owner(a.item) = b.liker /\ Owner(b.item) = a.liker

MatchesPairing(a, b) ==
    {m \in matches : \/ (m.like_one = a.id /\ m.like_two = b.id)
                     \/ (m.like_one = b.id /\ m.like_two = a.id)}

ChatsOfPair(u1, u2) ==
    {c \in chats : {c.participant_one, c.participant_two} = {u1, u2}}

AllIdle == \A p \in Procs : tx[p].pc = "idle"

\* C1: once two different users have liked one item of each other, in either
\* order, exactly one Match pairs the two likes and exactly one Chat exists for
\* the two users, and running create_match_and_check_chat (created=True) again
\* for either like adds no Match and no Chat.
C1_MutualLikesMatchOnce ==
    \A a, b \in likes :
        (a.liker # b.liker /\ Reciprocal(a, b)) =>
            /\ Cardinality(MatchesPairing(a, b)) = 1
            /\ Cardinality(ChatsOfPair(a.liker, b.liker)) = 1
            /\ Engine(likes, matches, chats, a) = [matches |-> matches, chats |-> chats]
            /\ Engine(likes, matches, chats, b) = [matches |-> matches, chats |-> chats]

C1_Witness ==
    /\ last = Outcome("like_item", "liked")
    /\ \E a, b \in likes : a.liker # b.liker /\ Reciprocal(a, b)
                           /\ MatchesPairing(a, b) # {}

\* C2: the sender of every Message in a Chat of two users is one of the two
\* participants of that Chat (send_message by anyone else creates no Message).
C2_SenderIsParticipant ==
    \A m \in messages : \A c \in chats :
        (c.id = m.chat /\ c.participant_one # c.participant_two) =>
            m.sender \in {c.participant_one, c.participant_two}

\* C3: every Match pairs two different Likes A and B such that A's liker owns
\* B's item, B's liker owns A's item, and the two likers are different users.
C3_MatchesAreMutual ==
    \A m \in matches :
        \E a, b \in likes :
            /\ a.id = m.like_one /\ b.id = m.like_two
            /\ a # b
            /\ Reciprocal(a, b)
            /\ a.liker # b.liker

\* C4: every Chat has two distinct participants, the lower user id stored as
\* participant_one, and there is at most one Chat per unordered pair of users.
C4_ChatsCanonical ==
    /\ \A c \in chats : c.participant_one < c.participant_two
    /\ \A c, d \in chats :
          {c.participant_one, c.participant_two} = {d.participant_one, d.participant_two}
              => c = d

\* The matches that pair a like of one participant of chat c with a like of the other.
MatchesBetween(c) ==
    {m \in matches :
        \E a, b \in likes :
            /\ {a.id, b.id} = {m.like_one, m.like_two}
            /\ \/ (a.liker = c.participant_one /\ b.liker = c.participant_two)
               \/ (a.liker = c.participant_two /\ b.liker = c.participant_one)}

\* C5: delete_chat_and_related_data called by a participant of a chat of two
\* users completes without error, and afterwards the Chat, its Messages, every
\* Match between the two participants and both Likes of every such Match are
\* gone, however many Messages and Matches there are.
C5_DeleteChatUnwinds ==
    [][last'.op = "delete_chat" => \A u \in Users : \A c \in chats :
          (/\ DeleteChat(u, c.id)
           /\ c.participant_one # c.participant_two
           /\ u \in {c.participant_one, c.participant_two}) =>
              /\ last' = Outcome("delete_chat", "deleted")
              /\ c \notin chats'
              /\ \A m \in messages' : m.chat # c.id
              /\ \A m \in MatchesBetween(c) :
                    /\ m \notin matches'
                    /\ m.like_one \notin Ids(likes')
                    /\ m.like_two \notin Ids(likes')]_vars

\* C6: delete_chat_and_related_data called by a user who is not a participant
\* reports the permission error and leaves every Chat, Message, Match and Like
\* unchanged.
C6_DeleteChatDenied ==
    [][last'.op = "delete_chat" => \A u \in Users : \A c \in chats :
          (DeleteChat(u, c.id) /\ u \notin {c.participant_one, c.participant_two}) =>
              /\ last' = Outcome("delete_chat", "denied")
              /\ UNCHANGED <<likes, matches, chats, messages>>]_vars

C6_Witness ==
    /\ last = Outcome("delete_chat", "denied")
    /\ chats # {}

\* C7: like_item for an (item, user) that already has a Like leaves exactly one
\* Like for the pair, reports "already liked" and creates no Match and no Chat.
C7_RepeatedLikeIsNoOp ==
    [][last'.op = "like_item" => \A u \in Users : \A i \in Items :
          (LikeItem(u, i) /\ LikesOf(u, i) # {}) =>
              /\ last' = Outcome("like_item", "already_liked")
              /\ likes' = likes
              /\ Cardinality(LikesOf(u, i)) = 1
              /\ matches' = matches
              /\ chats' = chats]_vars

C7_Witness ==
    /\ last = Outcome("like_item", "already_liked")
    /\ likes # {}

\* C8: after the overlapping like_item transactions have finished there is at
\* most one Like row per (item, liker), and no request saw an error.
C8_NoDuplicateLike ==
    AllIdle =>
        /\ \A a, b \in likes : (a.item = b.item /\ a.liker = b.liker) => a = b
        /\ last.result # "error"

\* C9: once the like_item transactions have committed, every two likes that two
\* different users gave to an item of each other are paired by exactly one
\* Match, and exactly one Chat exists for the two users.
C9_ConcurrentMutualLikesMatch ==
    AllIdle =>
        \A a, b \in likes :
            (a.liker # b.liker /\ Reciprocal(a, b)) =>
                /\ Cardinality(MatchesPairing(a, b)) = 1
                /\ Cardinality(ChatsOfPair(a.liker, b.liker)) = 1

\* C10: for every two existing Likes A (by U1 on an item of U2) and B (by U2 on
\* an item of U1) exactly one Match pairs A with B, counting both orientations,
\* and exactly one Chat exists for {U1, U2}, however many Matches the pair has.
C10_OneMatchPerLikePair ==
    \A a, b \in likes :
        Reciprocal(a, b) =>
            /\ Cardinality(MatchesPairing(a, b)) = 1
            /\ Cardinality(ChatsOfPair(a.liker, b.liker)) = 1

\* two Matches of one pair of users that share a Like, and a single Chat
C10_Witness ==
    /\ last = Outcome("like_item", "liked")
    /\ \E a, b, c \in likes :
          /\ b # c /\ a.liker # b.liker
          /\ Reciprocal(a, b) /\ Reciprocal(a, c)
          /\ MatchesPairing(a, b) # {} /\ MatchesPairing(a, c) # {}
          /\ Cardinality(ChatsOfPair(a.liker, b.liker)) = 1

\* C12: send_message by a participant of a chat of two users with empty text,
\* blank (whitespace-only) text or no message_text at all creates no Message
\* and raises no error.
C12_BlankTextIsNoOp ==
    [][last'.op = "send_message" => \A u \in Users : \A c \in chats :
          \A t \in {None, "", " "} :
              (/\ c.participant_one # c.participant_two
               /\ u \in {c.participant_one, c.participant_two}
               /\ SendMessage(u, c.id, t)) =>
                  /\ messages' = messages
                  /\ last'.result # "error"]_vars

\* the rows a rendered list holds
RowsOf(list) == {list[k] : k \in DOMAIN list}

\* C13: send_message by a participant with non-empty text adds exactly one
\* Message with that chat, sender and text and changes no earlier Message; the
\* message list of ChatView shows the messages in the order they were sent
\* (Message ids are handed out in send order).
C13_MessageAppended ==
    [][/\ last'.op = "send_message" => \A u \in Users : \A c \in chats : \A t \in Texts :
            (/\ u \in {c.participant_one, c.participant_two}
             /\ t \notin {None, ""}
             /\ SendMessage(u, c.id, t)) =>
                /\ last' = Outcome("send_message", "sent")
                /\ messages \subseteq messages'
                /\ Cardinality(messages' \ messages) = 1
                /\ \A m \in messages' \ messages :
                      /\ m.chat = c.id /\ m.sender = u /\ m.text = t
                      /\ \A e \in messages : e.id < m.id
       /\ (last'.op = "chat_view" /\ last'.result = "ok") =>
            \A a, b \in DOMAIN last'.data : a < b => last'.data[a].id < last'.data[b].id]_vars

\* a participant sees two messages of the chat, oldest first
C13_Witness ==
    /\ last.op = "chat_view" /\ last.result = "ok"
    /\ Len(last.data) = 2
    /\ last.data[1].sender # last.data[2].sender
    /\ \E c \in chats : /\ c.id = last.data[1].chat
                         /\ {last.data[1].sender, last.data[2].sender} =
                                {c.participant_one, c.participant_two}

\* C14: ChatView for an existing chat answers a user who is neither participant
\* with permission denied, and a participant with the detail view whose message
\* list holds every Message of that chat and no Message of another chat.
C14_ChatViewAccess ==
    [][last'.op = "chat_view" => \A u \in Users : \A c \in chats :
          ChatView(u, c.id) =>
              IF u \notin {c.participant_one, c.participant_two}
              THEN last' = Outcome("chat_view", "denied")
              ELSE /\ last'.result = "ok"
                   /\ RowsOf(last'.data) = {m \in messages : m.chat = c.id}
                   /\ Len(last'.data) = Cardinality({m \in messages : m.chat = c.id})]_vars

\* a participant views a chat with a message while another chat has one too
C14_Witness ==
    /\ last.op = "chat_view" /\ last.result = "ok"
    /\ Len(last.data) = 1
    /\ \E m \in messages : m.chat # last.data[1].chat

\* the likes that one of the users a and b gave to an item of the other
LikesBetween(ls, a, b) ==
    {l \in ls : \/ (l.liker = a /\ Owner(l.item) = b)
                \/ (l.liker = b /\ Owner(l.item) = a)}

\* C15: once a participant has deleted the chat of two users U1 and U2, no Like
\* between them and no Chat of theirs is left; like_item(U1, A) then creates a
\* new Like without conflict and, on its own, no Match and no Chat; when U2
\* then likes an item of U1, exactly one new Match and exactly one new Chat of
\* {U1, U2} exist.
C15_FreshCycleAfterDelete ==
    [][/\ last'.op = "delete_chat" => \A u \in Users : \A c \in chats :
            (/\ c.participant_one # c.participant_two
             /\ last'.result = "deleted"
             /\ DeleteChat(u, c.id)) =>
                /\ LikesBetween(likes', c.participant_one, c.participant_two) = {}
                /\ ChatsOfPair(c.participant_one, c.participant_two)' = {}
       /\ last'.op = "like_item" => \A u \in Users : \A i \in Items :
            (/\ u # Owner(i)
             /\ ChatsOfPair(u, Owner(i)) = {}
             /\ LikeItem(u, i)) =>
                LET before == LikesBetween(likes, u, Owner(i)) IN
                /\ before = {} =>
                      /\ last' = Outcome("like_item", "liked")
                      /\ likes \subseteq likes'
                      /\ Cardinality(likes' \ likes) = 1
                      /\ matches' = matches
                      /\ chats' = chats
                /\ (Cardinality(before) = 1 /\ \A l \in before : l.liker = Owner(i)) =>
                      /\ last' = Outcome("like_item", "liked")
                      /\ matches \subseteq matches'
                      /\ Cardinality(matches' \ matches) = 1
                      /\ Cardinality(chats' \ chats) = 1
                      /\ Cardinality(ChatsOfPair(u, Owner(i))') = 1]_vars

\* two users are matched again with a new chat after a chat that held a
\* message has been deleted
C15_Witness ==
    /\ last = Outcome("like_item", "liked")
    /\ nextMsgId > 1 /\ messages = {}
    /\ Cardinality(likes) = 2 /\ Cardinality(matches) = 1 /\ Cardinality(chats) = 1
    /\ \E a, b \in likes : a.liker # b.liker /\ MatchesPairing(a, b) # {}

\* the pairs <<a, b>> of likes, a by u and b by o, that a Match pairs
MatchedLikes(u, o) ==
    {p \in likes \X likes :
        p[1].liker = u /\ p[2].liker = o /\ MatchesPairing(p[1], p[2]) # {}}

C17_ListingEnsuresOneChat ==
    [][/\ last'.op = "match_list" => \A u \in Users :
            MatchList(u) =>
                LET matched == {o \in Users : MatchedLikes(u, o) # {}} IN
                /\ chats \subseteq chats'
                /\ \A o \in matched : Cardinality(ChatsOfPair(u, o)') = 1
                /\ \A c \in chats' \ chats :
                      \E o \in matched : /\ {c.participant_one, c.participant_two} = {u, o}
                                          /\ ChatsOfPair(u, o) = {}
       /\ \A a, b \in Users : Cardinality(ChatsOfPair(a, b)') <= 1]_vars

\* a listing that created the missing Chat of two matched users
C17_Witness ==
    /\ last.op = "match_list"
    /\ \E k \in DOMAIN last.data :
          /\ last.data[k].created
          /\ \E c \in chats : /\ c.id = last.data[k].chat
                               /\ c.participant_one # c.participant_two

C20_DeleteItemOwnerOnly ==
    [][last'.op = "delete_item" => \A u \in Users : \A i \in items :
          DeleteItem(u, i) =>
              IF Owner(i) # u
              THEN /\ last' = Outcome("delete_item", "denied")
                   /\ UNCHANGED <<items, images, likes, matches, chats>>
              ELSE (\A m \in matches : \A l \in likes :
                        l.id \in {m.like_one, m.like_two} => l.item # i) =>
                      /\ last' = Outcome("delete_item", "deleted")
                      /\ i \notin items']_vars

\* a user who is not the owner was refused while the item has a Like
C20_Witness ==
    /\ last = Outcome("delete_item", "denied")
    /\ likes # {}
    /\ matches # {}

\* the Likes a Match pairs, as far as they exist in ls
LikesOfMatch(ls, m) == {l \in ls : l.id \in {m.like_one, m.like_two}}

\* C11: like_item with its match engine and delete_chat_and_related_data are
\* atomic.  A worker that dies inside one of them changes no committed row;
\* every committed Match has both its Likes and a Chat of their two likers;
\* and as long as a Chat is committed, no step removes one of its Messages, a
\* Match between its participants or a Like of such a Match.
C11_AtomicSequences ==
    [][/\ last'.op = "crash" => UNCHANGED <<likes, matches, chats, messages>>
       /\ \A m \in matches' :
            \E a, b \in likes' : /\ a.id = m.like_one /\ b.id = m.like_two
                                 /\ ChatsOfPair(a.liker, b.liker)' # {}
       /\ \A c \in chats \cap chats' :
            /\ {m \in messages : m.chat = c.id} \subseteq messages'
            /\ \A m \in MatchesBetween(c) :
                  m \in matches' /\ LikesOfMatch(likes, m) \subseteq likes']_vars

\* the worker died in the loop of a chat deletion that had already deleted the
\* messages and a match; the committed rows are all still there
C11_Witness ==
    /\ last = Outcome("crash", "del_loop")
    /\ messages # {}
    /\ \E c \in chats : c.participant_one # c.participant_two /\ MatchesBetween(c) # {}

\* C18: when like_item transactions and match listings that ensure the Chat of
\* the same two users overlap, no pair of users gets two Chats, no request
\* ends with the uniqueness violation, and every request that has ensured a
\* Chat finds exactly one Chat of that pair.
C18_ConcurrentChatEnsure ==
    /\ \A a, b \in Users : Cardinality(ChatsOfPair(a, b)) <= 1
    /\ last.result # "integrity_error"
    /\ \A p \in Procs :
          /\ (tx[p].pc = "commit" /\ tx[p].wmatches # {}) =>
                Cardinality(ChatFor(VisibleChats(p), TxPair(p))) = 1
          /\ tx[p].pc = "list_get" =>
                \A k \in tx[p].keys \ tx[p].kleft : Cardinality(ChatFor(chats, k)) = 1

\* one listing has ensured the Chat the other listing looked for in vain and
\* is about to insert
C18_Witness ==
    \E p, q \in Procs :
        /\ p # q
        /\ tx[p].pc = "list_get" /\ tx[p].kleft = {}
        /\ tx[q].pc = "list_create"
        /\ tx[q].key \in tx[p].keys
        /\ tx[q].key[1] # tx[q].key[2]
        /\ ChatFor(chats, tx[q].key) # {}

\* a Match one of whose likes was made by a and the other by b
MatchBetweenUsers(a, b) ==
    \E m \in matches : \E x, y \in likes :
        /\ x.id = m.like_one
        /\ y.id = m.like_two
        /\ {x.liker, y.liker} = {a, b}

RatingsBy(rs, rated, rater) ==
    {r \in rs : r.rated_user = rated /\ r.rating_user = rater}

\* C21: a Rating (rated_user = B, rating_user = A) is created or changed only
\* by a post of A on B's profile served while a Match pairs a like of A with a
\* like of B; a post served while no such Match exists writes no Rating.
C21_RatingNeedsMatch ==
    [][/\ ratings' # ratings =>
            \E a, b \in Users :
               /\ last'.op = "rate_user" /\ last'.result = "submitted"
               /\ last'.data[1] = b /\ last'.data[2] = a
               /\ MatchBetweenUsers(a, b)
               /\ \A c, d \in Users : <<c, d>> # <<b, a>> =>
                     RatingsBy(ratings', c, d) = RatingsBy(ratings, c, d)
       /\ (last'.op = "rate_user" /\ last'.result = "submitted") =>
            MatchBetweenUsers(last'.data[2], last'.data[1])]_vars

\* user A has rated another user B, matched with A, for the first time
C21_Witness ==
    /\ last.op = "rate_user" /\ last.result = "submitted"
    /\ last.data[1] # last.data[2]
    /\ last.data[4] = 0
    /\ MatchBetweenUsers(last.data[2], last.data[1])
    /\ RatingsBy(ratings, last.data[1], last.data[2]) # {}

\* C22: there is at most one Rating per (rated_user, rating_user); a submitted
\* rating replaces the earlier value of the pair, and the value stays until the
\* same rater submits again for the same user.
C22_RatingOverwritten ==
    /\ [](\A a, b \in Users : Cardinality(RatingsBy(ratings, b, a)) <= 1)
    /\ [][/\ (last'.op = "rate_user" /\ last'.result = "submitted") =>
               RatingsBy(ratings', last'.data[1], last'.data[2]) =
                   {[rated_user |-> last'.data[1], rating_user |-> last'.data[2],
                     rating |-> last'.data[3]]}
          /\ ratings' # ratings =>
               (last'.op = "rate_user" /\ last'.result = "submitted")]_vars

\* a second submission has replaced a different earlier value
C22_Witness ==
    /\ last.op = "rate_user" /\ last.result = "submitted"
    /\ last.data[4] \notin {0, last.data[3]}
    /\ RatingsBy(ratings, last.data[1], last.data[2]) =
          {[rated_user |-> last.data[1], rating_user |-> last.data[2],
            rating |-> last.data[3]]}

\* the Matches one of whose two likes is a like of item i
MatchesOfItem(i) ==
    {m \in matches : \E l \in likes : l.item = i /\ l.id \in {m.like_one, m.like_two}}

\* C23: DeleteItemView.post by the owner of an item that a Match references
\* through like_one or like_two deletes nothing (the Item, its images, the
\* Likes, the Matches and the Chats stay as they are) and reports a warning.
C23_DeleteItemInMatchRefused ==
    [][last'.op = "delete_item" =>
          \A i \in items :
             (MatchesOfItem(i) # {} /\ DeleteItem(Owner(i), i)) =>
                 /\ last' = Outcome("delete_item", "warning")
                 /\ UNCHANGED <<items, images, likes, matches, chats>>]_vars

\* the owner was refused while a Match references one of their items through
\* like_two only, and the pair's Chat is there
C23_Witness ==
    /\ last = Outcome("delete_item", "warning")
    /\ \E i \in items :
          /\ MatchesOfItem(i) # {}
          /\ \A m \in MatchesOfItem(i) : \A l \in likes : l.id = m.like_one => l.item # i
          /\ \E m \in MatchesOfItem(i) : \E a, b \in likes :
                /\ a.id = m.like_one /\ b.id = m.like_two
                /\ a.liker # b.liker
                /\ ChatsOfPair(a.liker, b.liker) # {}

\* C24: when a delete_chat_and_related_data request overlaps with a like_item
\* request (one that matches the liker with a participant of the chat
\* included), then once both are over every Match references two existing
\* Likes, and every Match of two different users U1 and U2 has the Chat of
\* {U1, U2}.
C24_DeleteChatRacesLike ==
    AllIdle =>
        \A m \in matches : \E a, b \in likes :
            /\ a.id = m.like_one
            /\ b.id = m.like_two
            /\ a.liker # b.liker => ChatsOfPair(a.liker, b.liker) # {}

\* the deletion lost the race: like_item committed a second Match of the two
\* users between the deletion's DELETE of the matches and its DELETE of the
\* likes, the foreign key stopped the deletion at COMMIT, and the two Matches
\* and the Chat are all there
C24_Witness ==
    /\ AllIdle
    /\ last = Outcome("delete_chat", "integrity_error")
    /\ \E m, n \in matches : \E a, b \in likes :
          /\ m # n
          /\ a.id = m.like_one /\ b.id = m.like_two
          /\ a.liker # b.liker
          /\ b.id \in {n.like_one, n.like_two}
          /\ ChatsOfPair(a.liker, b.liker) # {}

\* C25: with the requests served one at a time, every Chat has a Match that
\* pairs a like of one participant with a like of the other.
C25_ChatHasMatch ==
    \A c \in chats :
        \E m \in matches : \E a, b \in likes :
            /\ a.id = m.like_one
            /\ b.id = m.like_two
            /\ {a.liker, b.liker} = {c.participant_one, c.participant_two}

\* a chat was deleted with its matches and likes, and the Chat of two other
\* users is still there with its Match
C25_Witness ==
    /\ last = Outcome("delete_chat", "deleted")
    /\ \E c \in chats :
          /\ c.participant_one # c.participant_two
          /\ MatchesBetween(c) # {}

\* the users of the likes of Match m
Likers(m) == {l.liker : l \in {x \in likes : x.id \in {m.like_one, m.like_two}}}

C27_ListingIsPureRead ==
    [][last'.op = "match_list" =>
          UNCHANGED <<items, likes, matches, messages, nextMsgId, chats>>]_vars

\* a listing has shown a group of two different users whose Chat, with a
\* Message in it, was already there
C27_Witness ==
    /\ last.op = "match_list"
    /\ \E k \in 1..Len(last.data) :
          /\ ~last.data[k].created
          /\ last.data[k].chat[1] # last.data[k].chat[2]
          /\ last.data[k].chat \in Ids(chats)
          /\ \E g \in messages : g.chat = last.data[k].chat

\* the Matches as unordered pairs of likes
UnorderedMatches == {{m.like_one, m.like_two} : m \in matches}

\* the reciprocal pairs of likes of a set of Like rows
ReciprocalPairs(ls) == {p \in {{a.id, b.id} : a, b \in ls} :
                           \E a, b \in ls : p = {a.id, b.id} /\ Reciprocal(a, b)}

\* the chats of the reciprocal pairs
ReciprocalChats(ls) ==
    {[id |-> ChatId(SortedPair(a.liker, b.liker)),
      participant_one |-> SortedPair(a.liker, b.liker)[1],
      participant_two |-> SortedPair(a.liker, b.liker)[2]] :
        <<a, b>> \in {q \in ls \X ls : Reciprocal(q[1], q[2])}}

\* C28: after like actions with distinct (user, item) pairs, applied through
\* like_item in whatever order, the Likes are one row per action, and the
\* Matches as unordered pairs and the Chats are determined by that set of
\* Likes alone (so every order of the same actions ends with the same rows).
C28_LikeOrderIndependent ==
    /\ \A l \in likes : l.id = <<l.item, l.liker, 0>>
    /\ UnorderedMatches = ReciprocalPairs(likes)
    /\ chats = ReciprocalChats(likes)

\* three likes of two users: the like that arrived second is like_one of one
\* Match and like_two of the other
C28_Witness ==
    /\ Cardinality(likes) = 3
    /\ \E m, n \in matches : \E a \in likes :
          /\ m # n
          /\ a.id = m.like_one /\ a.id = n.like_two
          /\ m.like_two # a.id /\ n.like_one # a.id
          /\ a.liker # Owner(a.item)

\* C29: with the requests served one at a time no dangling reference is left:
\* both likes of every Match exist, the item of every Like exists, and the
\* chat of every Message exists.
C29_NoDanglingReference ==
    /\ \A m \in matches : {m.like_one, m.like_two} \subseteq Ids(likes)
    /\ \A l \in likes : l.item \in items
    /\ \A g \in messages : g.chat \in Ids(chats)

\* an item was deleted after a chat had been deleted with its messages, and a
\* Like of a remaining item is still there
C29_Witness ==
    /\ last = Outcome("delete_item", "deleted")
    /\ nextMsgId > 1
    /\ messages = {}
    /\ chats = {}
    /\ likes # {}
    /\ Cardinality(items) < NumItems - 1
====
